---- MODULE Spec2Model ----
(***************************************************************************)
(* A model of the dumpcap package: the pipe-message codec (util.go), the   *)
(* statistics line decoder and the Capture / Statistics sessions, each a   *)
(* helper process, its pipe, one decode goroutine and the caller's         *)
(* Receive / Close / Kill / Wait operations.                               *)
(*                                                                         *)
(* Bytes are numbers 0..255, texts are sequences of bytes, errors are      *)
(* strings ("nil" is the nil error).  The commander is the one the package *)
(* ships, osCommand, an *exec.Cmd: its pipe is an OS pipe (bounded, a read *)
(* on a closed read end fails with *os.PathError, the end of the writer    *)
(* is io.EOF), and its Wait closes the pipe's read end after the exit.     *)
(***************************************************************************)
EXTENDS Integers, Sequences, FiniteSets, TLC

\* ---------------------------------------------------------------- bounds
\* Bytes the pipe between the helper and the session holds.
PipeCap == 8
\* Calls of Wait the caller makes on one session.
MaxWaitCalls == 2
\* Bytes of a frame's text.
MaxTextLen == 2
\* Bytes of a line of the statistics output.
MaxLineLen == 5
\* Calls of readPipeMsg on one input.
MaxCalls == 3

\* ------------------------------------------------------ protocol constants
BadFilterMsg == 66
DropCountMsg == 68
ErrMsg == 69
FileMsg == 70
PacketCountMsg == 80
QuitMsg == 81
SuccessMsg == 83

NUL == 0
TAB == 9
NL == 10

\* ----------------------------------------------------------------- codec
Tail2(s, n) == SubSeq(s, n + 1, Len(s))

\* A read through a buffer of its own: what it read ahead is lost to the
\* caller's reader.
ReadFullAhead(input, n) ==
  IF Len(input) >= n
    THEN [data |-> SubSeq(input, 1, n), rest |-> <<>>, err |-> "nil"]
    ELSE [data |-> input, rest |-> <<>>,
          err |-> IF Len(input) = 0 THEN "EOF" ELSE "ErrUnexpectedEOF"]

\* io.ReadFull on a finite input: exactly n bytes, else io.EOF when none was
\* read and io.ErrUnexpectedEOF when some were.
ReadFull(input, n) ==
  IF Len(input) >= n
    THEN [data |-> SubSeq(input, 1, n), rest |-> Tail2(input, n), err |-> "nil"]
    ELSE [data |-> input, rest |-> <<>>,
          err |-> IF Len(input) = 0 THEN "EOF" ELSE "ErrUnexpectedEOF"]

\* The 24-bit big-endian length of a header.
msgSize(buffer) == buffer[2] * 65536 + buffer[3] * 256 + buffer[4]

\* The payload handed on with its terminating NUL.
parsePipeMsgKeepNUL(input) ==
  LET h == ReadFull(input, 4) IN
  IF h.err # "nil"
    THEN [msgType |-> 0, msg |-> <<>>, err |-> h.err, rest |-> <<>>]
    ELSE IF msgSize(h.data) = 0
      THEN [msgType |-> h.data[1], msg |-> <<>>, err |-> "nil", rest |-> h.rest]
      ELSE LET p == ReadFull(h.rest, msgSize(h.data)) IN
           IF p.err # "nil"
             THEN [msgType |-> 0, msg |-> <<>>, err |-> p.err, rest |-> <<>>]
             ELSE [msgType |-> h.data[1],
                   msg |-> p.data,
                   err |-> "nil", rest |-> p.rest]

parsePipeMsg(input) ==
  LET h == ReadFull(input, 4) IN
  IF h.err # "nil"
    THEN [msgType |-> 0, msg |-> <<>>, err |-> h.err, rest |-> <<>>]
    ELSE IF msgSize(h.data) = 0
      THEN [msgType |-> h.data[1], msg |-> <<>>, err |-> "nil", rest |-> h.rest]
      ELSE LET p == ReadFull(h.rest, msgSize(h.data)) IN
           IF p.err # "nil"
             THEN [msgType |-> 0, msg |-> <<>>, err |-> p.err, rest |-> <<>>]
             ELSE [msgType |-> h.data[1],
                   msg |-> IF p.data[Len(p.data)] = NUL
                             THEN SubSeq(p.data, 1, Len(p.data) - 1)
                             ELSE p.data,
                   err |-> "nil", rest |-> p.rest]

parsePipeErrMsg(input) ==
  LET m1 == parsePipeMsg(input) IN
  IF m1.err # "nil" THEN [text |-> <<>>, err |-> m1.err]
  ELSE LET m2 == parsePipeMsg(m1.rest) IN
       IF m2.err # "nil" THEN [text |-> <<>>, err |-> m2.err]
       ELSE [text |-> m1.msg \o m2.msg, err |-> "nil"]

IsDigit(b) == b >= 48 /\ b <= 57

RECURSIVE DigitsValue(_)
DigitsValue(s) ==
  IF s = <<>> THEN 0
  ELSE DigitsValue(SubSeq(s, 1, Len(s) - 1)) * 10 + (s[Len(s)] - 48)

\* A parser that takes the empty string for zero.
ParseUintLax(s) ==
  IF \A i \in 1..Len(s) : IsDigit(s[i])
    THEN [val |-> DigitsValue(s), err |-> "nil"]
    ELSE [val |-> 0, err |-> "NumError"]

\* strconv.ParseUint(s, 10, 64) on the texts of the model (a few digits: the
\* 64-bit range is never left).
ParseUint(s) ==
  IF s # <<>> /\ \A i \in 1..Len(s) : IsDigit(s[i])
    THEN [val |-> DigitsValue(s), err |-> "nil"]
    ELSE [val |-> 0, err |-> "NumError"]

NoMsg == [Type |-> 0, DropCount |-> 0, PacketCount |-> 0, Text |-> <<>>]

readPipeMsg(input) ==
  LET p == parsePipeMsg(input) IN
  IF p.err # "nil" THEN [msg |-> NoMsg, err |-> p.err, rest |-> <<>>]
  ELSE IF p.msgType = DropCountMsg
    THEN LET i == ParseUint(p.msg) IN
         IF i.err # "nil" THEN [msg |-> NoMsg, err |-> i.err, rest |-> p.rest]
         ELSE [msg |-> [Type |-> p.msgType, DropCount |-> i.val,
                        PacketCount |-> 0, Text |-> p.msg],
               err |-> "nil", rest |-> p.rest]
  ELSE IF p.msgType = ErrMsg
    THEN LET e == parsePipeErrMsg(p.msg) IN
         IF e.err # "nil" THEN [msg |-> NoMsg, err |-> e.err, rest |-> p.rest]
         ELSE [msg |-> [Type |-> p.msgType, DropCount |-> 0,
                        PacketCount |-> 0, Text |-> e.text],
               err |-> "nil", rest |-> p.rest]
  ELSE IF p.msgType = PacketCountMsg
    THEN LET i == ParseUint(p.msg) IN
         IF i.err # "nil" THEN [msg |-> NoMsg, err |-> i.err, rest |-> p.rest]
         ELSE [msg |-> [Type |-> p.msgType, DropCount |-> 0,
                        PacketCount |-> i.val, Text |-> p.msg],
               err |-> "nil", rest |-> p.rest]
  ELSE [msg |-> [Type |-> p.msgType, DropCount |-> 0, PacketCount |-> 0,
                 Text |-> p.msg],
        err |-> "nil", rest |-> p.rest]

\* The check of the type left out: any frame that decodes is taken.
waitForSuccessMsgAnyType(input) ==
  LET r == readPipeMsg(input) IN [err |-> r.err, rest |-> r.rest]

waitForSuccessMsg(input) ==
  LET r == readPipeMsg(input) IN
  IF r.err # "nil" THEN [err |-> r.err, rest |-> r.rest]
  ELSE IF r.msg.Type # SuccessMsg
    THEN [err |-> "UnexpectedMessage", rest |-> r.rest]
    ELSE [err |-> "nil", rest |-> r.rest]

\* ------------------------------------------------- statistics line decoder
\* The positions of the bytes of s equal to b, in order.
Positions(s, b) == {i \in 1..Len(s) : s[i] = b}
Min(S) == CHOOSE x \in S : \A y \in S : x <= y

\* strings.SplitN(line, "\t", 3)
SplitN3(line) ==
  LET tabs == Positions(line, TAB) IN
  IF tabs = {} THEN <<line>>
  ELSE LET t1 == Min(tabs) IN
       IF tabs \ {t1} = {} THEN <<SubSeq(line, 1, t1 - 1), Tail2(line, t1)>>
       ELSE LET t2 == Min(tabs \ {t1}) IN
            <<SubSeq(line, 1, t1 - 1), SubSeq(line, t1 + 1, t2 - 1), Tail2(line, t2)>>

NoStats == [Name |-> <<>>, PacketCount |-> 0, DropCount |-> 0]

\* The counts taken from the wrong columns.
parseStatisticsLineSwapped(line) ==
  LET cols == SplitN3(line) IN
  IF Len(cols) # 3 THEN [ds |-> NoStats, err |-> "IllegalOutput"]
  ELSE LET pc == ParseUint(cols[3]) IN
       IF pc.err # "nil" THEN [ds |-> NoStats, err |-> pc.err]
       ELSE LET dc == ParseUint(cols[2]) IN
            [ds |-> [Name |-> cols[1], PacketCount |-> pc.val, DropCount |-> dc.val],
             err |-> dc.err]

parseStatisticsLine(line) ==
  LET cols == SplitN3(line) IN
  IF Len(cols) # 3 THEN [ds |-> NoStats, err |-> "IllegalOutput"]
  ELSE LET pc == ParseUint(cols[2]) IN
       IF pc.err # "nil" THEN [ds |-> NoStats, err |-> pc.err]
       ELSE LET dc == ParseUint(cols[3]) IN
            [ds |-> [Name |-> cols[1], PacketCount |-> pc.val, DropCount |-> dc.val],
             err |-> dc.err]

\* -------------------------------------------------- what the helper writes
\* The test suite's frame builder: header, text, NUL.
generateMsg(msgType, msgText) ==
  LET n == Len(msgText) + 1 IN
  <<msgType, n \div 65536, (n \div 256) % 256, n % 256>> \o msgText \o <<NUL>>

generateErrorMsg(msgText1, msgText2) ==
  LET inner == generateMsg(ErrMsg, msgText1) \o generateMsg(ErrMsg, msgText2)
      n == Len(inner) + 1 IN
  <<ErrMsg, n \div 65536, (n \div 256) % 256, n % 256>> \o inner \o <<NUL>>

\* Short texts standing for the test suite's: a file name, "123", "456", a
\* device name.
TxtFile == <<102>>
Txt12 == <<49, 50>>
Txt3 == <<51>>
TxtBad == <<120>>
statsOutput == <<100, TAB, 49, TAB, 50, NL>>
gibberish == <<120, NL>>

\* A sequence of bytes cut into the writes of at most n bytes the helper makes.
RECURSIVE Chunks(_, _)
Chunks(s, n) ==
  IF Len(s) <= n THEN (IF s = <<>> THEN <<>> ELSE <<s>>)
  ELSE <<SubSeq(s, 1, n)>> \o Chunks(Tail2(s, n), n)

\* The runs of the helper in capture mode, each the sequence of its writes to
\* stderr before it exits.
CaptureRuns == {
  \* mockedCaptureCmd: File, PacketCount, DropCount
  <<generateMsg(FileMsg, TxtFile), generateMsg(PacketCountMsg, Txt12),
    generateMsg(DropCountMsg, Txt3)>>,
  \* mockedCaptureCmd with a bad filter
  <<generateMsg(BadFilterMsg, TxtBad)>>,
  \* a frame written in two pieces
  <<<<FileMsg, 0, 0>>, <<2, 102, NUL>>, generateMsg(DropCountMsg, Txt3)>>,
  \* a count that is no number
  <<generateMsg(FileMsg, TxtFile), generateMsg(PacketCountMsg, TxtBad)>>,
  \* a well-formed error message
  Chunks(generateErrorMsg(TxtFile, TxtBad), 7),
  \* an error message holding one nested message only
  <<<<ErrMsg, 0, 0, 4, ErrMsg, 0, 0, 0>>>>,
  \* an error message whose second nested message is cut
  <<<<ErrMsg, 0, 0, 6, ErrMsg, 0>>, <<0, 0, ErrMsg, 0>>>>,
  \* a header and nothing of the payload it announces
  <<<<FileMsg, 0, 0, 2>>>>,
  \* a header and a part of the payload it announces
  <<<<FileMsg, 0, 0, 3, 102>>>>
}

\* The runs of the helper in statistics mode: its writes to stdout.
StatisticsRuns == {
  \* mockedStatsCmd
  <<statsOutput, statsOutput>>,
  \* mockedStatsCmd with illegal output
  <<gibberish, statsOutput>>,
  \* a count that is no number
  <<statsOutput, <<100, TAB, 49, TAB, 120, NL>>>>,
  \* a line written in two pieces, the first no line of its own
  <<statsOutput, <<100, TAB, 49>>, <<TAB, 50, NL>>>>,
  \* a line written in two pieces, the first a line with a shorter count
  <<<<100, TAB, 49, TAB, 50>>, <<51, NL>>>>
}

Flatten(run) ==
  LET F[i \in 0..Len(run)] == IF i = 0 THEN <<>> ELSE F[i - 1] \o run[i]
  IN F[Len(run)]


\* ------------------------------------------------------------------ state
VARIABLES
  kind,             \* "capture" or "statistics": which session is created
  run,              \* the writes the helper makes before it exits
  session,          \* "new", "failed" (NewX returned an error) or "running"
  cmdErr,           \* the error the commander reported to NewX, or "nil"
  newErr,           \* the error NewX returned, or "nil"
  handle,           \* NewX returned a session: its channels are the caller's
  helper,           \* "notstarted", "running" or "exited"
  exitOK,           \* the helper's exit status is zero
  written,          \* the writes of run the helper has made
  pipe,             \* the bytes in the pipe
  rdClosed,         \* the pipe's read end is closed
  callerClosed,     \* Close was called
  decPC,            \* the decode goroutine: "none", "read", "select",
                    \* "defer_exit", "defer_msgs", "done"
  buf,              \* the bytes the goroutine has read and not yet decoded
  scanErr,          \* the bufio.Scanner's recorded read error, or "nil"
  pending,          \* the message the goroutine is blocked handing off
  decoded,          \* history: the messages decoded, in order
  dropped,          \* history: the messages given up on cancellation, each
                    \* with whether the goroutine was blocked in the select
  fault,            \* history: the goroutine met a malformed or cut message
  exitStatus,       \* the exitStatus channel's buffer (capacity 1)
  exitStatusClosed, \* close(exitStatus) has run
  errWrites,        \* history: the sends on exitStatus
  recordedErr,      \* history: the first error sent on exitStatus, or "nil"
  msgClosed,        \* the number of close(Messages) / close(Stats) so far
  quitClosed,       \* the number of close(quit) so far
  panicked,         \* a send on or a close of a closed channel happened
  received,         \* history: the messages the caller received, in order
  recvWaiting,      \* the caller is blocked receiving from the output channel
  observedClosed,   \* the caller has seen the output channel closed
  waitPC,           \* Wait: "idle", "childwait", "closequit", "recvstatus",
                    \* "returned"
  waitCalls,        \* the calls of Wait so far
  childErr,         \* what child.Wait() returned to the current Wait
  waitResult,       \* what the last Wait returned
  fn,               \* the decoding function applied on its own, or "none"
  given,            \* the input it is applied to
  stream,           \* what is left of the input after the calls so far
  outs              \* history: what the calls returned, in order

vars == <<kind, run, session, cmdErr, newErr, handle, helper, exitOK, written,
          pipe, rdClosed, callerClosed, decPC, buf, scanErr, pending, decoded,
          dropped, fault, exitStatus, exitStatusClosed, errWrites, recordedErr,
          msgClosed, quitClosed, panicked, received, recvWaiting,
          observedClosed, waitPC, waitCalls, childErr, waitResult,
          fn, given, stream, outs>>

codecVars == <<fn, given, stream, outs>>
cfgVars == <<kind, run, codecVars>>
newVars == <<session, cmdErr, newErr, handle>>
helperVars == <<helper, exitOK, written>>
pipeVars == <<pipe, rdClosed, callerClosed>>
slotVars == <<exitStatus, exitStatusClosed, errWrites, recordedErr>>
waitVars == <<waitPC, waitCalls, childErr, waitResult>>
selectVars == <<decPC, pending, received, dropped, recvWaiting, panicked>>

\* No session created yet.
SessionIdle ==
  /\ session = "new" /\ cmdErr = "nil" /\ newErr = "nil" /\ handle = FALSE
  /\ helper = "notstarted" /\ exitOK = TRUE /\ written = 0
  /\ pipe = <<>> /\ rdClosed = FALSE /\ callerClosed = FALSE
  /\ decPC = "none" /\ buf = <<>> /\ scanErr = "nil" /\ pending = <<>>
  /\ decoded = <<>> /\ dropped = <<>> /\ fault = FALSE
  /\ exitStatus = <<>> /\ exitStatusClosed = FALSE /\ errWrites = 0
  /\ recordedErr = "nil"
  /\ msgClosed = 0 /\ quitClosed = 0 /\ panicked = FALSE
  /\ received = <<>> /\ recvWaiting = FALSE /\ observedClosed = FALSE
  /\ waitPC = "idle" /\ waitCalls = 0 /\ childErr = "nil" /\ waitResult = "nil"

Init ==
  /\ kind \in {"capture", "statistics"}
  /\ run \in (IF kind = "capture" THEN CaptureRuns ELSE StatisticsRuns)
  /\ SessionIdle
  /\ fn = "none" /\ given = <<>> /\ stream = <<>> /\ outs = <<>>

\* ------------------------------------------------------- session creation
\* The session is set up and returned whatever Start reports.
newSessionUnchecked(pipeErr, startErr) ==
  /\ session = "new"
  /\ IF pipeErr # "nil"
       THEN /\ session' = "failed" /\ cmdErr' = pipeErr /\ newErr' = pipeErr
            /\ UNCHANGED <<handle, helper, decPC>>
       ELSE /\ session' = IF startErr # "nil" THEN "failed" ELSE "running"
            /\ cmdErr' = startErr /\ newErr' = "nil"
            /\ handle' = TRUE /\ decPC' = "read"
            /\ helper' = IF startErr # "nil" THEN "exited" ELSE "running"
  /\ UNCHANGED <<cfgVars, exitOK, written, pipeVars, buf, scanErr, pending,
                 decoded, dropped, fault, slotVars, msgClosed, quitClosed,
                 panicked, received, recvWaiting, observedClosed, waitVars>>

\* NewCapture / NewStatistics: the pipe is acquired, the channels are made,
\* the child is started and only then the goroutine is spawned and the
\* session returned.  pipeErr and startErr are what StderrPipe / StdoutPipe
\* and Start report.
newSession(pipeErr, startErr) ==
  /\ session = "new"
  /\ IF pipeErr # "nil"
       THEN /\ session' = "failed" /\ cmdErr' = pipeErr /\ newErr' = pipeErr
            /\ UNCHANGED <<handle, helper, decPC>>
       ELSE IF startErr # "nil"
         THEN /\ session' = "failed" /\ cmdErr' = startErr /\ newErr' = startErr
              /\ UNCHANGED <<handle, helper, decPC>>
         ELSE /\ session' = "running" /\ cmdErr' = "nil" /\ newErr' = "nil"
              /\ handle' = TRUE /\ helper' = "running" /\ decPC' = "read"
  /\ UNCHANGED <<cfgVars, exitOK, written, pipeVars, buf, scanErr, pending,
                 decoded, dropped, fault, slotVars, msgClosed, quitClosed,
                 panicked, received, recvWaiting, observedClosed, waitVars>>

NewCapture ==
  /\ kind = "capture"
  /\ \E pipeErr \in {"nil", "PipeError"}, startErr \in {"nil", "StartError"} :
       newSession(pipeErr, startErr)

NewStatistics ==
  /\ kind = "statistics"
  /\ \E pipeErr \in {"nil", "PipeError"}, startErr \in {"nil", "StartError"} :
       newSession(pipeErr, startErr)

\* ------------------------------------------------------------- the helper
\* One write of the helper: it blocks while the pipe has no room for it.
HelperWrite ==
  /\ helper = "running" /\ ~panicked
  /\ written < Len(run) /\ ~rdClosed
  /\ Len(pipe) + Len(run[written + 1]) <= PipeCap
  /\ pipe' = pipe \o run[written + 1]
  /\ written' = written + 1
  /\ UNCHANGED <<cfgVars, newVars, helper, exitOK, rdClosed, callerClosed,
                 decPC, buf, scanErr, pending, decoded, dropped, fault,
                 slotVars, msgClosed, quitClosed, panicked, received,
                 recvWaiting, observedClosed, waitVars>>

\* The helper exits once it has written everything, or when it finds the
\* pipe's read end closed; its status is its own.
HelperExit ==
  /\ helper = "running" /\ ~panicked
  /\ written = Len(run) \/ rdClosed
  /\ helper' = "exited"
  /\ exitOK' \in BOOLEAN
  /\ UNCHANGED <<cfgVars, newVars, written, pipeVars, decPC, buf, scanErr,
                 pending, decoded, dropped, fault, slotVars, msgClosed,
                 quitClosed, panicked, received, recvWaiting, observedClosed,
                 waitVars>>


\* ----------------------------------------------------------- the channels
\* The slot made without a buffer: the send waits for Wait's receive.
SendExitStatusUnbuffered(err) ==
  /\ waitPC = "recvstatus" /\ Len(exitStatus) < 1
  /\ exitStatus' = Append(exitStatus, err)
  /\ errWrites' = errWrites + 1
  /\ recordedErr' = IF errWrites = 0 THEN err ELSE recordedErr
  /\ UNCHANGED exitStatusClosed

\* c.exitStatus <- err: the buffer holds one error; a second send would block.
SendExitStatus(err) ==
  /\ Len(exitStatus) < 1
  /\ exitStatus' = Append(exitStatus, err)
  /\ errWrites' = errWrites + 1
  /\ recordedErr' = IF errWrites = 0 THEN err ELSE recordedErr
  /\ UNCHANGED exitStatusClosed

\* A plain send in place of the select: the quit case is missing.
SelectHandoffNoQuit(receiverReady, quitIsClosed) ==
  IF receiverReady THEN {"send"} ELSE {"park"}

\* select { case Messages <- msg: ; case <-quit: return }: the communications
\* that can proceed, one of which is chosen; "park" when none can.
SelectHandoff(receiverReady, quitIsClosed) ==
  IF receiverReady /\ quitIsClosed THEN {"send", "quit"}
  ELSE IF receiverReady THEN {"send"}
  ELSE IF quitIsClosed THEN {"quit"}
  ELSE {"park"}

\* Messages handed over out of order (each send in a goroutine of its own).
DeliverUnordered(rcvd, m) == <<m>> \o rcvd

\* The caller's receive of message m.
Deliver(rcvd, m) == Append(rcvd, m)

\* The hand-off left to a goroutine of its own: with no receiver ready the
\* loop goes on reading with the message still to be delivered.
SelectDetached(m, receiverReady, quitIsClosed) ==
  \E o \in SelectHandoff(receiverReady, quitIsClosed) :
    /\ decPC' = CASE o = "send" -> "read"
                  [] o = "quit" -> "defer_exit"
                  [] OTHER -> "read"
    /\ pending' = IF o = "park" THEN <<m>> ELSE <<>>
    /\ received' = IF o = "send" THEN Deliver(received, m) ELSE received
    /\ dropped' = IF o = "quit"
                   THEN Append(dropped, [msg |-> m, parked |-> decPC = "select"])
                   ELSE dropped
    /\ recvWaiting' = IF o = "send" THEN FALSE ELSE recvWaiting
    /\ panicked' = (panicked \/ (o = "send" /\ msgClosed > 0))

\* The select statement with message m in hand, on arrival and whenever the
\* other side makes one of its communications possible.
Select(m, receiverReady, quitIsClosed) ==
  \E o \in SelectHandoff(receiverReady, quitIsClosed) :
    /\ decPC' = CASE o = "send" -> "read"
                  [] o = "quit" -> "defer_exit"
                  [] OTHER -> "select"
    /\ pending' = IF o = "park" THEN <<m>> ELSE <<>>
    /\ received' = IF o = "send" THEN Deliver(received, m) ELSE received
    /\ dropped' = IF o = "quit"
                   THEN Append(dropped, [msg |-> m, parked |-> decPC = "select"])
                   ELSE dropped
    /\ recvWaiting' = IF o = "send" THEN FALSE ELSE recvWaiting
    /\ panicked' = (panicked \/ (o = "send" /\ msgClosed > 0))

\* ---------------------------------------------- the Capture decode goroutine
\* The bytes readPipeMsg still needs for the frame it is reading.
Need(b) == IF Len(b) < 4 THEN 4 - Len(b) ELSE 4 + msgSize(b) - Len(b)
FrameComplete(b) == Len(b) >= 4 /\ Need(b) = 0

\* One read of the pipe inside io.ReadFull: the bytes there are, at most as
\* many as the frame still needs.
CaptureFill ==
  /\ kind = "capture" /\ decPC = "read" /\ ~panicked
  /\ ~rdClosed /\ pipe # <<>> /\ ~FrameComplete(buf)
  /\ LET n == IF Need(buf) < Len(pipe) THEN Need(buf) ELSE Len(pipe) IN
       /\ buf' = buf \o SubSeq(pipe, 1, n)
       /\ pipe' = Tail2(pipe, n)
  /\ UNCHANGED <<cfgVars, newVars, helperVars, rdClosed, callerClosed, decPC,
                 scanErr, pending, decoded, dropped, fault, slotVars,
                 msgClosed, quitClosed, panicked, received, recvWaiting,
                 observedClosed, waitVars>>

\* readPipeMsg(c.stderr) returns: with the frame, with *os.PathError when the
\* read end is closed, or at the end of the helper's output.
CaptureReadReturns ==
  \/ FrameComplete(buf)
  \/ rdClosed
  \/ (pipe = <<>> /\ helper = "exited")

CaptureRead ==
  IF FrameComplete(buf) THEN readPipeMsg(buf)
  ELSE IF rdClosed THEN [msg |-> NoMsg, err |-> "PathError", rest |-> <<>>]
  ELSE readPipeMsg(buf)

\* The errors of readPipeMsg the goroutine does not report.
IsBenign(err) == err = "PathError" \/ err = "EOF"

\* The loop without the return after the send on exitStatus.
CaptureLoopGoesOn ==
  /\ kind = "capture" /\ decPC = "read" /\ ~panicked
  /\ CaptureReadReturns
  /\ LET r == CaptureRead IN
       /\ buf' = <<>>
       /\ fault' = (fault \/ (r.err # "nil" /\ r.err # "PathError"
                              /\ (FrameComplete(buf) \/ buf # <<>>)))
       /\ IF r.err # "nil"
            THEN /\ IF ~IsBenign(r.err)
                      THEN SendExitStatus(r.err)
                      ELSE UNCHANGED slotVars
                 /\ decPC' = IF IsBenign(r.err) THEN "defer_exit" ELSE "read"
                 /\ UNCHANGED <<pending, decoded, dropped, received,
                                recvWaiting, panicked>>
            ELSE /\ decoded' = Append(decoded, r.msg)
                 /\ Select(r.msg, recvWaiting, quitClosed > 0)
                 /\ UNCHANGED slotVars
  /\ UNCHANGED <<cfgVars, newVars, helperVars, pipeVars, scanErr, msgClosed,
                 quitClosed, observedClosed, waitVars>>

\* One turn of the goroutine's loop.
CaptureLoop ==
  /\ kind = "capture" /\ decPC = "read" /\ ~panicked
  /\ CaptureReadReturns
  /\ LET r == CaptureRead IN
       /\ buf' = <<>>
       /\ fault' = (fault \/ (r.err # "nil" /\ r.err # "PathError"
                              /\ (FrameComplete(buf) \/ buf # <<>>)))
       /\ IF r.err # "nil"
            THEN /\ IF ~IsBenign(r.err)
                      THEN SendExitStatus(r.err)
                      ELSE UNCHANGED slotVars
                 /\ decPC' = "defer_exit"
                 /\ UNCHANGED <<pending, decoded, dropped, received,
                                recvWaiting, panicked>>
            ELSE /\ decoded' = Append(decoded, r.msg)
                 /\ Select(r.msg, recvWaiting, quitClosed > 0)
                 /\ UNCHANGED slotVars
  /\ UNCHANGED <<cfgVars, newVars, helperVars, pipeVars, scanErr, msgClosed,
                 quitClosed, observedClosed, waitVars>>

\* ------------------------------------------- the Statistics decode goroutine
HasLine(b) == Positions(b, NL) # {}

\* The read inside scanner.Scan(), made when the buffer holds no whole line:
\* the bytes there are, or the error that ends the scanning.
ScanFill ==
  /\ kind = "statistics" /\ decPC = "read" /\ ~panicked
  /\ ~HasLine(buf) /\ scanErr = "nil"
  /\ IF rdClosed
       THEN scanErr' = "PathError" /\ UNCHANGED <<buf, pipe>>
       ELSE IF pipe # <<>>
         THEN buf' = buf \o pipe /\ pipe' = <<>> /\ UNCHANGED scanErr
         ELSE /\ helper = "exited"
              /\ scanErr' = "EOF" /\ UNCHANGED <<buf, pipe>>
  /\ UNCHANGED <<cfgVars, newVars, helperVars, rdClosed, callerClosed, decPC,
                 pending, decoded, dropped, fault, slotVars, msgClosed,
                 quitClosed, panicked, received, recvWaiting, observedClosed,
                 waitVars>>

\* The loop with `continue` in place of the report of a line that does not
\* parse: the line is skipped and the scanning goes on.
StatisticsLoopSkipsBadLines ==
  /\ kind = "statistics" /\ decPC = "read" /\ ~panicked
  /\ HasLine(buf) \/ scanErr # "nil"
  /\ IF HasLine(buf) \/ buf # <<>>
       THEN LET nl == IF HasLine(buf) THEN Min(Positions(buf, NL)) ELSE 0
                token == IF nl > 0 THEN SubSeq(buf, 1, nl - 1) ELSE buf
                r == parseStatisticsLine(token) IN
            /\ buf' = IF nl > 0 THEN Tail2(buf, nl) ELSE <<>>
            /\ fault' = (fault \/ (r.err # "nil" /\ (nl > 0 \/ scanErr = "EOF")))
            /\ IF r.err # "nil"
                 THEN UNCHANGED <<slotVars, decPC, pending, decoded, dropped,
                                  received, recvWaiting, panicked>>
                 ELSE /\ decoded' = Append(decoded, r.ds)
                      /\ Select(r.ds, recvWaiting, quitClosed > 0)
                      /\ UNCHANGED slotVars
       ELSE \* scanner.Err(): nil at io.EOF
            LET err == IF scanErr = "EOF" THEN "nil" ELSE scanErr IN
            /\ IF err # "nil" /\ err # "PathError"
                 THEN SendExitStatus(err)
                 ELSE UNCHANGED slotVars
            /\ decPC' = "defer_exit"
            /\ UNCHANGED <<buf, fault, pending, decoded, dropped, received,
                           recvWaiting, panicked>>
  /\ UNCHANGED <<cfgVars, newVars, helperVars, pipeVars, scanErr, msgClosed,
                 quitClosed, observedClosed, waitVars>>

\* scanner.Scan() returns: true with the next line, true with the rest of the
\* buffer once a read has failed (bufio.ScanLines at the end of its input), or
\* false.
StatisticsLoop ==
  /\ kind = "statistics" /\ decPC = "read" /\ ~panicked
  /\ HasLine(buf) \/ scanErr # "nil"
  /\ IF HasLine(buf) \/ buf # <<>>
       THEN LET nl == IF HasLine(buf) THEN Min(Positions(buf, NL)) ELSE 0
                token == IF nl > 0 THEN SubSeq(buf, 1, nl - 1) ELSE buf
                r == parseStatisticsLine(token) IN
            /\ buf' = IF nl > 0 THEN Tail2(buf, nl) ELSE <<>>
            /\ fault' = (fault \/ (r.err # "nil" /\ (nl > 0 \/ scanErr = "EOF")))
            /\ IF r.err # "nil"
                 THEN /\ SendExitStatus(r.err)
                      /\ decPC' = "defer_exit"
                      /\ UNCHANGED <<pending, decoded, dropped, received,
                                     recvWaiting, panicked>>
                 ELSE /\ decoded' = Append(decoded, r.ds)
                      /\ Select(r.ds, recvWaiting, quitClosed > 0)
                      /\ UNCHANGED slotVars
       ELSE \* scanner.Err(): nil at io.EOF
            LET err == IF scanErr = "EOF" THEN "nil" ELSE scanErr IN
            /\ IF err # "nil" /\ err # "PathError"
                 THEN SendExitStatus(err)
                 ELSE UNCHANGED slotVars
            /\ decPC' = "defer_exit"
            /\ UNCHANGED <<buf, fault, pending, decoded, dropped, received,
                           recvWaiting, panicked>>
  /\ UNCHANGED <<cfgVars, newVars, helperVars, pipeVars, scanErr, msgClosed,
                 quitClosed, observedClosed, waitVars>>

\* ------------------------------------------------- the goroutine's defers
\* defer close(exitStatus) runs first, defer close(Messages) second.
\* exitStatus closed only when no error was sent on it.
DeferCloseExitStatusUnlessError ==
  /\ decPC = "defer_exit" /\ ~panicked
  /\ exitStatusClosed' = (errWrites = 0)
  /\ decPC' = "defer_msgs"
  /\ UNCHANGED <<cfgVars, newVars, helperVars, pipeVars, buf, scanErr, pending,
                 decoded, dropped, fault, exitStatus, errWrites, recordedErr,
                 msgClosed, quitClosed, panicked, received, recvWaiting,
                 observedClosed, waitVars>>

\* The goroutine without its defer close(exitStatus).
DeferCloseExitStatusMissing ==
  /\ decPC = "defer_exit" /\ ~panicked
  /\ decPC' = "defer_msgs"
  /\ UNCHANGED <<cfgVars, newVars, helperVars, pipeVars, buf, scanErr, pending,
                 decoded, dropped, fault, slotVars, msgClosed, quitClosed,
                 panicked, received, recvWaiting, observedClosed, waitVars>>

DeferCloseExitStatus ==
  /\ decPC = "defer_exit" /\ ~panicked
  /\ exitStatusClosed' = TRUE
  /\ decPC' = "defer_msgs"
  /\ UNCHANGED <<cfgVars, newVars, helperVars, pipeVars, buf, scanErr, pending,
                 decoded, dropped, fault, exitStatus, errWrites, recordedErr,
                 msgClosed, quitClosed, panicked, received, recvWaiting,
                 observedClosed, waitVars>>

DeferCloseMessages ==
  /\ decPC = "defer_msgs" /\ ~panicked
  /\ msgClosed' = msgClosed + 1
  /\ panicked' = (msgClosed > 0)
  /\ decPC' = "done"
  /\ recvWaiting' = FALSE
  /\ observedClosed' = (observedClosed \/ recvWaiting)
  /\ UNCHANGED <<cfgVars, newVars, helperVars, pipeVars, buf, scanErr, pending,
                 decoded, dropped, fault, slotVars, quitClosed, received,
                 waitVars>>

\* -------------------------------------------------------------- the caller
\* <-c.Messages / <-s.Stats
Receive ==
  /\ handle /\ ~panicked /\ ~recvWaiting /\ ~observedClosed
  /\ IF msgClosed > 0
       THEN /\ observedClosed' = TRUE
            /\ UNCHANGED selectVars
       ELSE IF decPC = "select"
         THEN /\ Select(pending[1], TRUE, quitClosed > 0)
              /\ UNCHANGED observedClosed
         ELSE /\ recvWaiting' = TRUE
              /\ UNCHANGED <<decPC, pending, received, dropped, panicked,
                             observedClosed>>
  /\ UNCHANGED <<cfgVars, newVars, helperVars, pipeVars, buf, scanErr, decoded,
                 fault, slotVars, msgClosed, quitClosed, waitVars>>

\* A Close that closes the output channel as well.
CloseWithChannel ==
  /\ handle /\ ~panicked /\ ~callerClosed
  /\ callerClosed' = TRUE
  /\ rdClosed' = TRUE
  /\ msgClosed' = msgClosed + 1
  /\ panicked' = (msgClosed > 0 \/ decPC = "select")
  /\ recvWaiting' = FALSE
  /\ UNCHANGED <<cfgVars, newVars, helperVars, pipe, decPC, buf, scanErr,
                 pending, decoded, dropped, fault, slotVars, quitClosed,
                 received, observedClosed, waitVars>>

\* A Close that closes quit as well.
CloseSignalsQuit ==
  /\ handle /\ ~panicked /\ ~callerClosed
  /\ callerClosed' = TRUE
  /\ rdClosed' = TRUE
  /\ quitClosed' = quitClosed + 1
  /\ UNCHANGED <<cfgVars, newVars, helperVars, pipe, decPC, buf, scanErr,
                 pending, decoded, dropped, fault, slotVars, msgClosed,
                 panicked, received, recvWaiting, observedClosed, waitVars>>

\* Close: the pipe's read end is closed.
Close ==
  /\ handle /\ ~panicked /\ ~callerClosed
  /\ callerClosed' = TRUE
  /\ rdClosed' = TRUE
  /\ UNCHANGED <<cfgVars, newVars, helperVars, pipe, decPC, buf, scanErr,
                 pending, decoded, dropped, fault, slotVars, msgClosed,
                 quitClosed, panicked, received, recvWaiting, observedClosed,
                 waitVars>>

\* A Kill that closes the pipe's read end as well.
KillClosesPipe ==
  /\ handle /\ ~panicked /\ helper = "running"
  /\ helper' = "exited"
  /\ exitOK' = FALSE
  /\ rdClosed' = TRUE
  /\ UNCHANGED <<cfgVars, newVars, written, pipe, callerClosed, decPC, buf,
                 scanErr, pending, decoded, dropped, fault, slotVars, msgClosed,
                 quitClosed, panicked, received, recvWaiting, observedClosed,
                 waitVars>>

\* Kill: the process is killed, which is an exit with a failure status.
Kill ==
  /\ handle /\ ~panicked /\ helper = "running"
  /\ helper' = "exited"
  /\ exitOK' = FALSE
  /\ UNCHANGED <<cfgVars, newVars, written, pipeVars, decPC, buf, scanErr,
                 pending, decoded, dropped, fault, slotVars, msgClosed,
                 quitClosed, panicked, received, recvWaiting, observedClosed,
                 waitVars>>

\* Wait is called and blocks in child.Wait().
WaitCall ==
  /\ handle /\ ~panicked
  /\ waitPC \in {"idle", "returned"} /\ waitCalls < MaxWaitCalls
  /\ waitPC' = "childwait"
  /\ waitCalls' = waitCalls + 1
  /\ UNCHANGED <<cfgVars, newVars, helperVars, pipeVars, decPC, buf, scanErr,
                 pending, decoded, dropped, fault, slotVars, msgClosed,
                 quitClosed, panicked, received, recvWaiting, observedClosed,
                 childErr, waitResult>>

\* A child.Wait() that reports the exit status again on every call.
ChildWaitRepeatable == IF exitOK THEN "nil" ELSE "ExitError"

\* child.Wait() of an exec.Cmd: the first call returns once the process has
\* exited, with its status, and closes the pipe's read end; a later call
\* fails at once.
ChildWait ==
  IF waitCalls > 1 THEN "WaitAlreadyCalled"
  ELSE IF exitOK THEN "nil" ELSE "ExitError"

\* The exit status is not looked at before the decode status.
WaitChildIgnored ==
  /\ waitPC = "childwait" /\ ~panicked
  /\ waitCalls > 1 \/ helper = "exited"
  /\ childErr' = ChildWait
  /\ rdClosed' = (rdClosed \/ waitCalls = 1)
  /\ waitPC' = IF quitClosed > 0 THEN "recvstatus" ELSE "closequit"
  /\ UNCHANGED <<cfgVars, newVars, helperVars, pipe, callerClosed, decPC, buf,
                 scanErr, pending, decoded, dropped, fault, slotVars,
                 msgClosed, quitClosed, panicked, received, recvWaiting,
                 observedClosed, waitCalls, waitResult>>

\* err := c.child.Wait(); if err != nil { return err }
WaitChildReturns ==
  /\ waitPC = "childwait" /\ ~panicked
  /\ waitCalls > 1 \/ helper = "exited"
  /\ childErr' = ChildWait
  /\ rdClosed' = (rdClosed \/ waitCalls = 1)
  /\ IF ChildWait # "nil"
       THEN waitPC' = "returned" /\ waitResult' = ChildWait
       ELSE waitPC' = "closequit" /\ UNCHANGED waitResult
  /\ UNCHANGED <<cfgVars, newVars, helperVars, pipe, callerClosed, decPC, buf,
                 scanErr, pending, decoded, dropped, fault, slotVars,
                 msgClosed, quitClosed, panicked, received, recvWaiting,
                 observedClosed, waitCalls>>

\* close(c.quit): a goroutine blocked in the select takes the quit case.
WaitCloseQuit ==
  /\ waitPC = "closequit" /\ ~panicked
  /\ quitClosed' = quitClosed + 1
  /\ waitPC' = "recvstatus"
  /\ IF quitClosed > 0
       THEN panicked' = TRUE
            /\ UNCHANGED <<decPC, pending, received, dropped, recvWaiting>>
       ELSE IF decPC = "select"
         THEN Select(pending[1], FALSE, TRUE)
         ELSE UNCHANGED selectVars
  /\ UNCHANGED <<cfgVars, newVars, helperVars, pipeVars, buf, scanErr, decoded,
                 fault, slotVars, msgClosed, observedClosed, waitCalls,
                 childErr, waitResult>>

\* The value received from exitStatus is thrown away.
WaitRecvStatusDropped ==
  /\ waitPC = "recvstatus" /\ ~panicked
  /\ exitStatus # <<>> \/ exitStatusClosed
  /\ waitResult' = "nil"
  /\ exitStatus' = IF exitStatus # <<>> THEN Tail(exitStatus) ELSE exitStatus
  /\ waitPC' = "returned"
  /\ UNCHANGED <<cfgVars, newVars, helperVars, pipeVars, decPC, buf, scanErr,
                 pending, decoded, dropped, fault, exitStatusClosed, errWrites,
                 recordedErr, msgClosed, quitClosed, panicked, received,
                 recvWaiting, observedClosed, waitCalls, childErr>>

\* return <-c.exitStatus: the recorded error, or nil once the channel is
\* closed and empty.
WaitRecvStatus ==
  /\ waitPC = "recvstatus" /\ ~panicked
  /\ exitStatus # <<>> \/ exitStatusClosed
  /\ IF exitStatus # <<>>
       THEN waitResult' = exitStatus[1] /\ exitStatus' = Tail(exitStatus)
       ELSE waitResult' = "nil" /\ UNCHANGED exitStatus
  /\ waitPC' = "returned"
  /\ UNCHANGED <<cfgVars, newVars, helperVars, pipeVars, decPC, buf, scanErr,
                 pending, decoded, dropped, fault, exitStatusClosed, errWrites,
                 recordedErr, msgClosed, quitClosed, panicked, received,
                 recvWaiting, observedClosed, waitCalls, childErr>>

\* ------------------------------------------------------- the specification
Decoder ==
  \/ CaptureFill \/ CaptureLoop \/ ScanFill \/ StatisticsLoop
  \/ DeferCloseExitStatus \/ DeferCloseMessages

Next ==
  \/ NewCapture
  \/ NewStatistics
  \/ HelperWrite
  \/ HelperExit
  \/ CaptureFill
  \/ CaptureLoop
  \/ ScanFill
  \/ StatisticsLoop
  \/ DeferCloseExitStatus
  \/ DeferCloseMessages
  \/ Receive
  \/ Close
  \/ Kill
  \/ WaitCall
  \/ WaitChildReturns
  \/ WaitCloseQuit
  \/ WaitRecvStatus

Spec == Init /\ [][Next]_vars

\* ------------------------------------------- the decoders on their own
\* The bytes of the texts: two digits and a letter.
TextBytes == {49, 50, 120}
Texts == UNION {[1..n -> TextBytes] : n \in 0..MaxTextLen}

MsgTypes == {BadFilterMsg, DropCountMsg, ErrMsg, FileMsg, PacketCountMsg,
             QuitMsg, SuccessMsg}

\* A frame on the wire: type, 24-bit big-endian length, payload.
RawFrame(msgType, payload) ==
  LET n == Len(payload) IN
  <<msgType, n \div 65536, (n \div 256) % 256, n % 256>> \o payload

Cuts(s) == {SubSeq(s, 1, k) : k \in 0..Len(s)}

\* Payloads without a terminating NUL, with one and with two.
Payloads ==
  Texts \cup {t \o <<NUL>> : t \in Texts} \cup {t \o <<NUL, NUL>> : t \in Texts}
PlainFrames == {RawFrame(ty, p) : ty \in MsgTypes \ {ErrMsg}, p \in Payloads}

\* Err payloads: two nested frames one after the other, whole or cut, with
\* and without a NUL after them.
NestedTexts == {t \in Texts : Len(t) <= 1}
NestedPairs ==
  {generateMsg(ErrMsg, t1) \o generateMsg(ErrMsg, t2) :
     t1 \in NestedTexts, t2 \in NestedTexts}
ErrPayloads ==
  UNION {Cuts(g) \cup {c \o <<NUL>> : c \in Cuts(g)} : g \in NestedPairs}
ErrFrames == {RawFrame(ErrMsg, p) : p \in ErrPayloads}

\* The frames that may follow a first frame on one input.
Followers == {generateMsg(SuccessMsg, <<>>), generateMsg(PacketCountMsg, <<49>>)}

\* The inputs of readPipeMsg and waitForSuccessMsg: a frame whole or cut at
\* any byte, a frame and a second one after it, or the whole output of one
\* of the helper's runs.
Streams ==
  UNION {Cuts(f) : f \in PlainFrames \cup ErrFrames}
    \cup {f \o g : f \in PlainFrames \cup ErrFrames, g \in Followers}
    \cup {Flatten(r) : r \in CaptureRuns}

\* The inputs of parseStatisticsLine.
LineBytes == {TAB, 49, 50, 120}
Lines == UNION {[1..n -> LineBytes] : n \in 0..MaxLineLen}

\* ------------------------------------------------- the command line built
pipeName == "none"

autoStopConditionArg == "-a"
bufferedBytesArg == "-C"
bufferedPacketsArg == "-N"
captureFilterArg == "-f"
disablePromiscuousArg == "-p"
durationArg == "duration"
enableGroupAccessArg == "-g"
enableMonitorModeArg == "-I"
filesArg == "files"
filesizeArg == "filesize"
interfaceArg == "-i"
kernelBufferSizeArg == "-B"
linkLayerTypeArg == "-y"
fileArg == "-w"
packetCountArg == "-c"
pipeOutputArg == "-Z"
ringbufferArg == "-b"
snaplenArg == "-s"
usePCAPArg == "-P"
usePCAPNGArg == "-n"
useThreadsArg == "-t"
wifiChannelArg == "-k"

captureCmd == ""
statsCmd == "-S"

UseDefaultFileFormat == 0
UsePCAP == 1
UsePCAPNG == 2

\* strconv.FormatUint(v, 10)
DigitChar(d) == <<"0", "1", "2", "3", "4", "5", "6", "7", "8", "9">>[d + 1]
RECURSIVE FormatUint(_)
FormatUint(v) ==
  IF v < 10 THEN DigitChar(v) ELSE FormatUint(v \div 10) \o DigitChar(v % 10)

\* An intArg that does not leave out the zero.
intArgAlways(r, v, a) == r \o <<a, FormatUint(v)>>

\* The closures of buildArgs, each appending to the list r built so far.
intArg(r, v, a) == IF v # 0 THEN r \o <<a, FormatUint(v)>> ELSE r
prefixedIntArg(r, v, a, prefix) ==
  IF v # 0 THEN r \o <<a, prefix \o ":" \o FormatUint(v)>> ELSE r
boolArg(r, v, a) == IF v THEN r \o <<a>> ELSE r
stringArg(r, str, a) == IF str # "" THEN r \o <<a, str>> ELSE r

\* The body of the loop over a.DeviceArgs, for one entry.
deviceArgs(r, da) ==
  IF da.Name = "" THEN r
  ELSE LET r1 == stringArg(r, da.Name, interfaceArg)
           r2 == boolArg(r1, da.DisablePromiscuousMode, disablePromiscuousArg)
           r3 == boolArg(r2, da.EnableMonitorMode, enableMonitorModeArg)
           r4 == intArg(r3, da.KernelBufferSize, kernelBufferSizeArg)
           r5 == stringArg(r4, da.LinkLayerType, linkLayerTypeArg)
           r6 == intArg(r5, da.SnapshotLength, snaplenArg)
       IN stringArg(r6, da.WiFiChannel, wifiChannelArg)

RECURSIVE allDeviceArgs(_, _)
allDeviceArgs(r, das) ==
  IF das = <<>> THEN r ELSE allDeviceArgs(deviceArgs(r, Head(das)), Tail(das))

buildArgs(a) ==
  LET r0 == <<a.command>>
      r1 == IF a.childMode THEN stringArg(r0, pipeName, pipeOutputArg) ELSE r0
      r2 == intArg(r1, a.BufferedBytes, bufferedBytesArg)
      r3 == intArg(r2, a.BufferedPackets, bufferedPacketsArg)
      r4 == stringArg(r3, a.CaptureFilter, captureFilterArg)
      r5 == boolArg(r4, a.DisablePromiscuousMode, disablePromiscuousArg)
      r6 == boolArg(r5, a.EnableGroupAccess, enableGroupAccessArg)
      r7 == boolArg(r6, a.EnableMonitorMode, enableMonitorModeArg)
      r8 == IF a.FileFormat = UsePCAP THEN r7 \o <<usePCAPArg>>
            ELSE IF a.FileFormat = UsePCAPNG THEN r7 \o <<usePCAPNGArg>>
            ELSE r7
      r9 == stringArg(r8, a.FileName, fileArg)
      r10 == intArg(r9, a.KernelBufferSize, kernelBufferSizeArg)
      r11 == stringArg(r10, a.LinkLayerType, linkLayerTypeArg)
      r12 == intArg(r11, a.SnapshotLength, snaplenArg)
      r13 == prefixedIntArg(r12, a.StopOnDuration, autoStopConditionArg, durationArg)
      r14 == prefixedIntArg(r13, a.StopOnFiles, autoStopConditionArg, filesArg)
      r15 == prefixedIntArg(r14, a.StopOnFilesize, autoStopConditionArg, filesizeArg)
      r16 == intArg(r15, a.StopOnPacketCount, packetCountArg)
      r17 == prefixedIntArg(r16, a.SwitchOnDuration, ringbufferArg, durationArg)
      r18 == prefixedIntArg(r17, a.SwitchOnFiles, ringbufferArg, filesArg)
      r19 == prefixedIntArg(r18, a.SwitchOnFilesize, ringbufferArg, filesizeArg)
      r20 == boolArg(r19, a.UseThreads, useThreadsArg)
      r21 == stringArg(r20, a.WiFiChannel, wifiChannelArg)
  IN allDeviceArgs(r21, a.DeviceArgs)

\* The configurations buildArgs is applied to: Arguments and DeviceArgument
\* values whose fields named in S are set (numbers to n, strings to "x") and
\* whose other fields are zero.
GlobalFields ==
  {"BufferedBytes", "BufferedPackets", "CaptureFilter",
   "DisablePromiscuousMode", "EnableGroupAccess", "EnableMonitorMode",
   "FileName", "KernelBufferSize", "LinkLayerType", "SnapshotLength",
   "StopOnDuration", "StopOnFiles", "StopOnFilesize", "StopOnPacketCount",
   "SwitchOnDuration", "SwitchOnFiles", "SwitchOnFilesize", "UseThreads",
   "WiFiChannel"}
DeviceFields ==
  {"CaptureFilter", "DisablePromiscuousMode", "EnableMonitorMode",
   "KernelBufferSize", "LinkLayerType", "SnapshotLength", "WiFiChannel"}

Arguments(S, n, ff, cmd, child, devs) ==
  [BufferedBytes |-> IF "BufferedBytes" \in S THEN n ELSE 0,
   BufferedPackets |-> IF "BufferedPackets" \in S THEN n ELSE 0,
   CaptureFilter |-> IF "CaptureFilter" \in S THEN "x" ELSE "",
   DisablePromiscuousMode |-> "DisablePromiscuousMode" \in S,
   EnableGroupAccess |-> "EnableGroupAccess" \in S,
   EnableMonitorMode |-> "EnableMonitorMode" \in S,
   FileName |-> IF "FileName" \in S THEN "x" ELSE "",
   KernelBufferSize |-> IF "KernelBufferSize" \in S THEN n ELSE 0,
   LinkLayerType |-> IF "LinkLayerType" \in S THEN "x" ELSE "",
   SnapshotLength |-> IF "SnapshotLength" \in S THEN n ELSE 0,
   StopOnDuration |-> IF "StopOnDuration" \in S THEN n ELSE 0,
   StopOnFiles |-> IF "StopOnFiles" \in S THEN n ELSE 0,
   StopOnFilesize |-> IF "StopOnFilesize" \in S THEN n ELSE 0,
   StopOnPacketCount |-> IF "StopOnPacketCount" \in S THEN n ELSE 0,
   SwitchOnDuration |-> IF "SwitchOnDuration" \in S THEN n ELSE 0,
   SwitchOnFiles |-> IF "SwitchOnFiles" \in S THEN n ELSE 0,
   SwitchOnFilesize |-> IF "SwitchOnFilesize" \in S THEN n ELSE 0,
   UseThreads |-> "UseThreads" \in S,
   WiFiChannel |-> IF "WiFiChannel" \in S THEN "x" ELSE "",
   FileFormat |-> ff, DeviceArgs |-> devs, command |-> cmd, childMode |-> child]

DeviceArgument(S, name, n) ==
  [CaptureFilter |-> IF "CaptureFilter" \in S THEN "x" ELSE "",
   DisablePromiscuousMode |-> "DisablePromiscuousMode" \in S,
   EnableMonitorMode |-> "EnableMonitorMode" \in S,
   KernelBufferSize |-> IF "KernelBufferSize" \in S THEN n ELSE 0,
   LinkLayerType |-> IF "LinkLayerType" \in S THEN "x" ELSE "",
   SnapshotLength |-> IF "SnapshotLength" \in S THEN n ELSE 0,
   WiFiChannel |-> IF "WiFiChannel" \in S THEN "x" ELSE "",
   Name |-> name]

\* Devices an argument list names.
MaxDevices == 2

\* No field, at most two fields, or all fields but at most two.
FieldSets ==
  LET few == {{}} \cup {{f, g} : f \in GlobalFields, g \in GlobalFields}
  IN few \cup {GlobalFields \ T : T \in few}
DeviceFieldSets == {{}, DeviceFields} \cup {{f} : f \in DeviceFields}

DeviceArguments ==
  {DeviceArgument(S, name, 7) : S \in DeviceFieldSets, name \in {"", "d"}}
DeviceLists == UNION {[1..k -> DeviceArguments] : k \in 0..MaxDevices}

\* The second argument list of TestBuildArgs.
TestBuildArgsInput ==
  [Arguments({"CaptureFilter", "EnableMonitorMode"}, 0, UsePCAPNG, statsCmd,
             FALSE,
             <<[DeviceArgument({"DisablePromiscuousMode"}, "dev1", 0)
                  EXCEPT !.CaptureFilter = "barfoo", !.KernelBufferSize = 456,
                         !.LinkLayerType = "llt"]>>)
     EXCEPT !.BufferedBytes = 123, !.CaptureFilter = "foobar",
            !.StopOnDuration = 60, !.SwitchOnFiles = 5]

ArgumentSets ==
  {Arguments(S, n, ff, cc[1], cc[2], <<>>) :
     S \in FieldSets, n \in {7, 60}, ff \in 0..3,
     cc \in {<<captureCmd, TRUE>>, <<captureCmd, FALSE>>, <<statsCmd, FALSE>>}}
  \cup {Arguments(S, 7, UseDefaultFileFormat, cc[1], cc[2], devs) :
          S \in {{}, GlobalFields}, devs \in DeviceLists,
          cc \in {<<captureCmd, TRUE>>, <<statsCmd, FALSE>>}}
  \cup {TestBuildArgsInput}

\* ------------------------------------------------- the capability query
\* bufio.Scanner with bufio.ScanLines on a finite input: the lines without
\* their newline, and what follows the last newline if it is not empty.
RECURSIVE ScanLines(_)
ScanLines(input) ==
  IF input = <<>> THEN <<>>
  ELSE IF ~HasLine(input) THEN <<input>>
  ELSE LET nl == Min(Positions(input, NL)) IN
       <<SubSeq(input, 1, nl - 1)>> \o ScanLines(Tail2(input, nl))

\* The loop of parseCapabilities over the lines after the first.
RECURSIVE parseLinkLayerTypes(_, _)
parseLinkLayerTypes(lines, llts) ==
  IF lines = <<>> THEN [llts |-> llts, err |-> "nil"]
  ELSE LET cols == SplitN3(Head(lines)) IN
       IF Len(cols) # 3 THEN [llts |-> <<>>, err |-> "IllegalOutput"]
       ELSE LET i == ParseUint(cols[1]) IN
            IF i.err # "nil" THEN [llts |-> <<>>, err |-> i.err]
            ELSE parseLinkLayerTypes(Tail(lines),
                   Append(llts, [DLT |-> i.val, Name |-> cols[2],
                                 Description |-> cols[3]]))

parseCapabilities(stdout) ==
  LET lines == ScanLines(stdout) IN
  IF lines = <<>> THEN [canRFMon |-> FALSE, llts |-> <<>>, err |-> "nil"]
  ELSE LET r == parseLinkLayerTypes(Tail(lines), <<>>) IN
       [canRFMon |-> (Head(lines) = <<49>>), llts |-> r.llts, err |-> r.err]

\* Lines of link-layer types the helper prints.
MaxLLTs == 2

\* What the helper prints on stdout: nothing, or a first line and up to
\* MaxLLTs lines after it, the last with or without its newline.
FirstLines == {<<>>, <<48>>, <<49>>, <<120>>}
LLTLines ==
  {<<49, TAB, 120, TAB, 120>>, <<49, 50, TAB, 120, TAB, 120>>,
   <<120, TAB, 120, TAB, 120>>, <<49, TAB, 120>>, <<>>,
   <<49, TAB, 120, TAB, 120, TAB, 120>>}
RECURSIVE JoinLines(_)
JoinLines(lines) ==
  IF lines = <<>> THEN <<>> ELSE Head(lines) \o <<NL>> \o JoinLines(Tail(lines))
CapabilityOutputs ==
  LET whole == {JoinLines(<<f>> \o l) :
                  f \in FirstLines,
                  l \in UNION {[1..k -> LLTLines] : k \in 0..MaxLLTs}}
  IN {<<>>} \cup whole \cup {SubSeq(w, 1, Len(w) - 1) : w \in whole}

\* What the helper writes on stderr before it.
CapabilityStderr ==
  Cuts(generateMsg(SuccessMsg, <<120>>))
    \cup {generateMsg(FileMsg, <<120>>), generateErrorMsg(<<49>>, <<120>>)}
    \cup {generateMsg(SuccessMsg, <<>>) \o g : g \in Followers}

\* The Device handed to Capabilities.
Devices ==
  {[CanRFMon |-> FALSE, LLTs |-> <<>>],
   [CanRFMon |-> TRUE,
    LLTs |-> <<[DLT |-> 1, Name |-> <<120>>, Description |-> <<120>>]>>]}

\* The calls of Capabilities: the commander's failures, if any, the helper's
\* two outputs and the Device.
CapabilityCalls ==
  {[stdoutErr |-> "nil", stderrErr |-> "nil", startErr |-> "nil",
    stderr |-> e, stdout |-> o, dev |-> d] :
     e \in CapabilityStderr, o \in CapabilityOutputs, d \in Devices}
  \cup {[stdoutErr |-> e1, stderrErr |-> e2, startErr |-> e3,
         stderr |-> generateMsg(SuccessMsg, <<>>),
         stdout |-> JoinLines(<<<<49>>>>), dev |-> d] :
          e1 \in {"nil", "PipeError"}, e2 \in {"nil", "PipeError"},
          e3 \in {"nil", "StartError"}, d \in Devices}

CodecInit ==
  /\ kind = "none" /\ run = <<>>
  /\ SessionIdle
  /\ fn \in {"readPipeMsg", "waitForSuccessMsg", "parseStatisticsLine",
             "buildArgs", "Capabilities"}
  /\ given \in (IF fn = "parseStatisticsLine" THEN Lines
                ELSE IF fn = "buildArgs" THEN ArgumentSets
                ELSE IF fn = "Capabilities" THEN CapabilityCalls ELSE Streams)
  /\ stream = (IF fn = "Capabilities"
                THEN [stderr |-> given.stderr, stdout |-> given.stdout]
                ELSE given)
  /\ outs = <<>>

sessionVars == <<kind, run, newVars, helperVars, pipeVars, decPC, buf, scanErr,
                 pending, decoded, dropped, fault, slotVars, msgClosed,
                 quitClosed, panicked, received, recvWaiting, observedClosed,
                 waitVars>>

\* readPipeMsg(input), called again on the same reader until it fails.
ReadPipeMsgCall ==
  /\ fn = "readPipeMsg" /\ Len(outs) < MaxCalls
  /\ IF outs = <<>> THEN TRUE ELSE outs[Len(outs)].err = "nil"
  /\ LET r == readPipeMsg(stream) IN
       /\ outs' = Append(outs, [msg |-> r.msg, err |-> r.err])
       /\ stream' = r.rest
  /\ UNCHANGED <<sessionVars, fn, given>>

WaitForSuccessMsgCall ==
  /\ fn = "waitForSuccessMsg" /\ outs = <<>>
  /\ LET r == waitForSuccessMsg(stream) IN
       /\ outs' = <<[err |-> r.err]>>
       /\ stream' = r.rest
  /\ UNCHANGED <<sessionVars, fn, given>>

ParseStatisticsLineCall ==
  /\ fn = "parseStatisticsLine" /\ outs = <<>>
  /\ LET r == parseStatisticsLine(stream) IN
       /\ outs' = <<[ds |-> r.ds, err |-> r.err]>>
       /\ stream' = <<>>
  /\ UNCHANGED <<sessionVars, fn, given>>

\* a.buildArgs() on the configuration given.
BuildArgsCall ==
  /\ fn = "buildArgs" /\ outs = <<>>
  /\ outs' = <<[argv |-> buildArgs(given)]>>
  /\ stream' = <<>>
  /\ UNCHANGED <<sessionVars, fn, given>>

\* Capabilities up to child.Start(): the first failure is returned.
CapabilitiesStart ==
  /\ fn = "Capabilities" /\ outs = <<>>
  /\ LET err == IF given.stdoutErr # "nil" THEN given.stdoutErr
                ELSE IF given.stderrErr # "nil" THEN given.stderrErr
                ELSE given.startErr IN
       outs' = <<[step |-> IF err # "nil" THEN "return" ELSE "started",
                  err |-> err, dev |-> given.dev]>>
  /\ UNCHANGED <<sessionVars, fn, given, stream>>

\* waitForSuccessMsg(stderr).
CapabilitiesWaitForSuccess ==
  /\ fn = "Capabilities" /\ outs # <<>>
  /\ IF outs = <<>> THEN FALSE ELSE outs[Len(outs)].step = "started"
  /\ \E r \in {waitForSuccessMsg(stream.stderr)} :
       /\ outs' = Append(outs,
                     [step |-> IF r.err # "nil" THEN "return" ELSE "success",
                      err |-> r.err, dev |-> given.dev])
       /\ stream' = [stream EXCEPT !.stderr = r.rest]
  /\ UNCHANGED <<sessionVars, fn, given>>

\* parseCapabilities(stdout) and the assignments to the Device.
CapabilitiesParse ==
  /\ fn = "Capabilities"
  /\ IF outs = <<>> THEN FALSE ELSE outs[Len(outs)].step = "success"
  /\ \E r \in {parseCapabilities(stream.stdout)} :
       /\ outs' = Append(outs,
                     [step |-> "return", err |-> r.err,
                      dev |-> IF r.err # "nil" THEN given.dev
                              ELSE [CanRFMon |-> r.canRFMon, LLTs |-> r.llts]])
       /\ stream' = [stream EXCEPT !.stdout = <<>>]
  /\ UNCHANGED <<sessionVars, fn, given>>

CodecNext ==
  \/ ReadPipeMsgCall
  \/ WaitForSuccessMsgCall
  \/ ParseStatisticsLineCall
  \/ BuildArgsCall
  \/ CapabilitiesStart
  \/ CapabilitiesWaitForSuccess
  \/ CapabilitiesParse

CodecSpec == CodecInit /\ [][CodecNext]_vars

\* ------------------------------------------------------------- properties
IsPrefix(s, t) == Len(s) <= Len(t) /\ SubSeq(t, 1, Len(s)) = s

\* The messages of the frames the helper's output holds whole, up to the first
\* that does not decode.
RECURSIVE FramesOf(_)
FramesOf(input) ==
  IF ~(Len(input) >= 4 /\ Len(input) >= 4 + msgSize(input)) THEN <<>>
  ELSE LET r == readPipeMsg(SubSeq(input, 1, 4 + msgSize(input))) IN
       IF r.err # "nil" THEN <<>>
       ELSE <<r.msg>> \o FramesOf(Tail2(input, 4 + msgSize(input)))

\* The statistics of the lines the helper's output holds whole, up to the
\* first that does not parse.
RECURSIVE LinesOf(_)
LinesOf(input) ==
  IF ~HasLine(input) THEN <<>>
  ELSE LET nl == Min(Positions(input, NL))
           r == parseStatisticsLine(SubSeq(input, 1, nl - 1)) IN
       IF r.err # "nil" THEN <<>>
       ELSE <<r.ds>> \o LinesOf(Tail2(input, nl))

WholeMessages ==
  IF kind = "capture" THEN FramesOf(Flatten(run)) ELSE LinesOf(Flatten(run))

MockCaptureRun ==
  <<generateMsg(FileMsg, TxtFile), generateMsg(PacketCountMsg, Txt12),
    generateMsg(DropCountMsg, Txt3)>>

MockCaptureMessages ==
  << [Type |-> FileMsg, DropCount |-> 0, PacketCount |-> 0, Text |-> TxtFile],
     [Type |-> PacketCountMsg, DropCount |-> 0, PacketCount |-> 12, Text |-> Txt12],
     [Type |-> DropCountMsg, DropCount |-> 3, PacketCount |-> 0, Text |-> Txt3] >>

\* C1: the output channel is closed at most once, only when the decode
\* goroutine has stopped for good (it holds no message and makes no further
\* send), and no send on or second close of a closed channel ever happens,
\* whatever the caller's Receive, Close, Kill and Wait do.
C1_OutputClosedOnceAfterLastSend ==
  /\ msgClosed <= 1
  /\ ~panicked
  /\ msgClosed = 1 => (decPC = "done" /\ pending = <<>>)

C1_Witness ==
  /\ msgClosed = 1 /\ Len(received) >= 1 /\ callerClosed
  /\ quitClosed = 1 /\ waitPC = "returned"

\* C2: what the caller has received is always a prefix of what the goroutine
\* has decoded, in decode order without duplicate or gap; for the frames
\* File, PacketCount, DropCount it is a prefix of exactly those three
\* messages.
C2_ReceivedIsPrefixOfDecoded ==
  /\ IsPrefix(received, decoded)
  /\ (kind = "capture" /\ run = MockCaptureRun)
       => IsPrefix(received, MockCaptureMessages)

C2_Witness ==
  kind = "capture" /\ run = MockCaptureRun /\ received = MockCaptureMessages

\* C3: a Wait that has returned returned nil exactly when child.Wait()
\* reported no error and no error was sent on exitStatus.
C3_WaitNilIffCleanAndNoError ==
  waitPC = "returned" =>
    (waitResult = "nil" <=> (childErr = "nil" /\ errWrites = 0))

C3_Witness ==
  waitPC = "returned" /\ childErr = "nil" /\ waitResult # "nil"

\* C4: a Wait that has returned returned the error of child.Wait() when there
\* was one, even with a decode error recorded, and otherwise the error sent
\* on exitStatus, or nil when none was sent.
C4_ExitStatusCheckedFirst ==
  waitPC = "returned" =>
    (IF childErr # "nil" THEN waitResult = childErr
     ELSE waitResult = recordedErr)

C4_Witness ==
  /\ waitPC = "returned" /\ waitCalls = 1 /\ childErr = "ExitError"
  /\ errWrites = 1

\* C5 (as stated): whenever Wait has returned, with any result, close(quit)
\* has run.
C5_WaitAlwaysCancels ==
  waitPC = "returned" => quitClosed > 0

\* C6: a goroutine blocked in the hand-off when quit is closed takes the quit
\* case.  It is never blocked in the select with quit closed; once it has
\* given a message up it is on its way out, where nothing blocks it; and the
\* message given up, the last one decoded, is never delivered: the caller
\* holds the messages decoded before it and no other.
C6_CancelWinsHandoff ==
  /\ decPC = "select" => (quitClosed = 0 /\ pending # <<>>)
  /\ dropped # <<>> =>
       /\ Len(dropped) = 1
       /\ decPC \in {"defer_exit", "defer_msgs", "done"}
       /\ pending = <<>>
       /\ dropped[1].msg = decoded[Len(decoded)]
       /\ received = SubSeq(decoded, 1, Len(decoded) - 1)
  /\ decPC \in {"defer_exit", "defer_msgs"} => ENABLED Decoder

C6_Witness ==
  /\ dropped # <<>> /\ dropped[1].parked
  /\ decPC = "done" /\ ~recvWaiting

\* C7 (as stated): when the goroutine has stopped, an error was sent on
\* exitStatus exactly once if it met a malformed or cut message, and never if
\* its reading ended with the end of the stream or the closed pipe.
C7_ErrorClassification ==
  decPC = "done" => errWrites = (IF fault THEN 1 ELSE 0)

\* C8 (as stated): in a Capture session whose goroutine met a malformed frame
\* and whose helper exited cleanly, the failure was sent on exitStatus once
\* and Wait returns a non-nil error.
C8_MalformedFrameSurfaces ==
  (kind = "capture" /\ fault /\ waitPC = "returned" /\ waitCalls = 1
     /\ childErr = "nil")
    => (errWrites = 1 /\ waitResult # "nil")

\* C9 (as stated): after Close the caller receives whole messages of the
\* helper's output only, and Close alone, with a clean exit and no malformed
\* message met, does not make Wait return an error.
C9_CloseIsCleanShutdown ==
  callerClosed =>
    /\ IsPrefix(received, WholeMessages)
    /\ (waitPC = "returned" /\ waitCalls = 1 /\ childErr = "nil" /\ ~fault)
         => waitResult = "nil"

\* C10: when StderrPipe / StdoutPipe or Start fails, NewCapture and
\* NewStatistics return that error and no session: no goroutine is spawned,
\* no process runs and no channel of the session is the caller's.
C10_LaunchFailureIsSynchronous ==
  /\ session = "failed" =>
       /\ newErr = cmdErr /\ newErr # "nil"
       /\ ~handle /\ decPC = "none" /\ helper = "notstarted"
  /\ cmdErr # "nil" => session = "failed"
  /\ handle => session = "running"

C10_Witness ==
  session = "failed" /\ cmdErr = "StartError" /\ kind = "statistics"

\* The error the goroutine's next turn of the loop sends on exitStatus, or
\* "nil" when that turn sends none.
NextSlotError ==
  IF decPC # "read" \/ panicked THEN "nil"
  ELSE IF kind = "capture"
    THEN IF CaptureReadReturns /\ ~IsBenign(CaptureRead.err)
           THEN CaptureRead.err ELSE "nil"
    ELSE IF HasLine(buf)
      THEN parseStatisticsLine(SubSeq(buf, 1, Min(Positions(buf, NL)) - 1)).err
      ELSE IF scanErr = "nil" THEN "nil"
      ELSE IF buf # <<>> THEN parseStatisticsLine(buf).err
      ELSE IF scanErr \in {"EOF", "PathError"} THEN "nil" ELSE scanErr

\* C11: the exitStatus slot gets at most one error in a session's life, and
\* the goroutine's send of it never blocks: whenever the goroutine's next
\* turn sends an error, the send can be made at once, whether or not Wait
\* was ever called.
C11_SlotWrittenOnceWithoutBlocking ==
  /\ errWrites <= 1
  /\ Len(exitStatus) <= 1
  /\ NextSlotError # "nil" => ENABLED SendExitStatus(NextSlotError)

\* The goroutine has sent its error and ended while Wait was never called.
C11_Witness ==
  /\ waitCalls = 0 /\ errWrites = 1 /\ exitStatus # <<>> /\ decPC = "done"

\* C12: in a Statistics session the first malformed line the goroutine meets
\* makes it send one error and stop: it is out of the scanning loop, every
\* DeviceStatistics it decoded came from the well-formed lines before that
\* line and was delivered, nothing is delivered after, the Stats channel is
\* closed when it has ended, and Wait returns a non-nil error, also when the
\* process exited cleanly.
C12_MalformedLineStopsStatistics ==
  (kind = "statistics" /\ fault) =>
    /\ errWrites = 1 /\ recordedErr # "nil"
    /\ decPC \in {"defer_exit", "defer_msgs", "done"}
    /\ received = decoded /\ pending = <<>> /\ dropped = <<>>
    /\ IsPrefix(decoded, LinesOf(Flatten(run)))
    /\ ~panicked
    /\ decPC = "done" => msgClosed = 1
    /\ (waitPC = "returned" /\ waitCalls = 1) => waitResult # "nil"

\* The helper wrote a malformed line and then a well-formed one and exited
\* cleanly; Wait has returned the goroutine's error.
C12_Witness ==
  /\ kind = "statistics" /\ fault /\ run = <<gibberish, statsOutput>>
  /\ written = Len(run) /\ exitOK /\ childErr = "nil"
  /\ waitPC = "returned" /\ waitCalls = 1 /\ waitResult = "IllegalOutput"
  /\ decPC = "done" /\ msgClosed = 1 /\ received = <<>>

\* The value of a decimal numeral, digit by digit from the left.
RECURSIVE Pow10(_)
Pow10(n) == IF n = 0 THEN 1 ELSE 10 * Pow10(n - 1)
RECURSIVE Decimal(_)
Decimal(s) ==
  IF s = <<>> THEN 0
  ELSE (s[1] - 48) * Pow10(Len(s) - 1) + Decimal(Tail(s))
Numeral(s) == s # <<>> /\ \A i \in DOMAIN s : s[i] \in 48..57

\* The fields of a line: the pieces between its tabs.
FieldCount(line) == Cardinality({i \in DOMAIN line : line[i] = TAB}) + 1
Field(line, k) ==
  LET cutsAt == {0, Len(line) + 1} \cup {i \in DOMAIN line : line[i] = TAB}
      lo == CHOOSE i \in cutsAt : Cardinality({j \in cutsAt : j < i}) = k - 1
      hi == CHOOSE i \in cutsAt : Cardinality({j \in cutsAt : j < i}) = k
  IN SubSeq(line, lo + 1, hi - 1)

\* C13: parseStatisticsLine returns the device name and the two counts
\* exactly when the line is three tab-separated fields whose second and third
\* are base-10 unsigned numerals, the name being the first field, the packet
\* count the value of the second and the drop count the value of the third;
\* every other line (fewer or more fields, a field that is no numeral) yields
\* an error.
C13_ParseStatisticsLine ==
  (fn = "parseStatisticsLine" /\ outs # <<>>) =>
    LET wellFormed == /\ FieldCount(given) = 3
                      /\ Numeral(Field(given, 2))
                      /\ Numeral(Field(given, 3))
    IN IF wellFormed
         THEN /\ outs[1].err = "nil"
              /\ outs[1].ds = [Name |-> Field(given, 1),
                               PacketCount |-> Decimal(Field(given, 2)),
                               DropCount |-> Decimal(Field(given, 3))]
         ELSE outs[1].err # "nil"

\* A line with two different counts was decoded.
C13_Witness ==
  /\ fn = "parseStatisticsLine" /\ given = <<120, TAB, 49, TAB, 50>>
  /\ outs # <<>> /\ outs[1].err = "nil"
  /\ outs[1].ds = [Name |-> <<120>>, PacketCount |-> 1, DropCount |-> 2]

\* The goroutine is not blocked: it is running its defers, its read returns
\* or has bytes to take, or its scanner has a line, an error or a read to make.
DecoderCanStep ==
  /\ ~panicked
  /\ \/ decPC \in {"defer_exit", "defer_msgs"}
     \/ /\ decPC = "read" /\ kind = "capture"
        /\ CaptureReadReturns \/ (pipe # <<>> /\ ~FrameComplete(buf))
     \/ /\ decPC = "read" /\ kind = "statistics"
        /\ \/ HasLine(buf) \/ scanErr # "nil"
           \/ rdClosed \/ pipe # <<>> \/ helper = "exited"

\* C14: when the helper has exited on its own with a clean status and Close
\* is never called, the first Wait is never stuck: its child.Wait() returns,
\* then while it waits on exitStatus the goroutine is not parked in the select
\* and can step until the slot holds an error or is closed, and a goroutine
\* that has ended leaves the slot readable; Wait returns nil when no error
\* was sent on exitStatus.
C14_WaitReturnsAfterCleanExit ==
  (waitCalls = 1 /\ helper = "exited" /\ exitOK /\ ~callerClosed) =>
    /\ ~panicked
    /\ waitPC = "childwait" => ChildWait = "nil"
    /\ waitPC = "recvstatus" =>
         /\ decPC # "select" /\ quitClosed = 1
         /\ exitStatus # <<>> \/ exitStatusClosed \/ DecoderCanStep
    /\ (waitPC = "returned" /\ errWrites = 0) => waitResult = "nil"

\* The helper wrote its messages and exited cleanly, the caller received
\* none and never called Close, and Wait has returned nil.
C14_Witness ==
  /\ waitCalls = 1 /\ helper = "exited" /\ exitOK /\ ~callerClosed
  /\ written = Len(run) /\ decoded # <<>> /\ received = <<>>
  /\ waitPC = "returned" /\ waitResult = "nil" /\ errWrites = 0

\* C15: a frame built by generateMsg from a type other than Err and a text
\* (a numeral for the two count types) decodes to that type and that text;
\* an Err frame built by generateErrorMsg from the texts t1 and t2 decodes to
\* type Err with the text t1 followed by t2.
C15_RoundTrip ==
  (fn = "readPipeMsg" /\ outs # <<>>) =>
    /\ \A ty \in MsgTypes \ {ErrMsg}, t \in Texts :
         (/\ given = generateMsg(ty, t)
          /\ ty \in {DropCountMsg, PacketCountMsg} => Numeral(t))
           => /\ outs[1].err = "nil"
              /\ outs[1].msg.Type = ty /\ outs[1].msg.Text = t
    /\ \A t1 \in NestedTexts, t2 \in NestedTexts :
         given = generateErrorMsg(t1, t2)
           => /\ outs[1].err = "nil"
              /\ outs[1].msg.Type = ErrMsg /\ outs[1].msg.Text = t1 \o t2

\* An Err frame built from two different texts was decoded.
C15_Witness ==
  /\ fn = "readPipeMsg" /\ given = generateErrorMsg(<<49>>, <<120>>)
  /\ outs # <<>> /\ outs[1].err = "nil" /\ outs[1].msg.Text = <<49, 120>>

\* C16 (as stated): readPipeMsg reports end-of-stream exactly when the input
\* is exhausted before any byte of a frame's header is read; an input cut
\* after some bytes of the header, or after the header with any part of the
\* announced payload (none of it included), is reported as another error.
C16_EOFOnlyOnEmptyInput ==
  (fn = "readPipeMsg" /\ outs # <<>>) => (outs[1].err = "EOF" <=> given = <<>>)

\* A payload without the one NUL that may end it.
StripNUL(p) ==
  IF p # <<>> /\ p[Len(p)] = NUL THEN SubSeq(p, 1, Len(p) - 1) ELSE p

\* C17: a DropCount or PacketCount frame whose payload, one trailing NUL
\* taken off, is a base-10 numeral n decodes with the count field of its type
\* equal to n and the other count field zero; any other payload, the empty
\* one included, makes readPipeMsg fail with an error that is not
\* end-of-stream.
C17_CountFrames ==
  (fn = "readPipeMsg" /\ outs # <<>>) =>
    \A ty \in {DropCountMsg, PacketCountMsg}, p \in Payloads :
      given = RawFrame(ty, p) =>
        IF Numeral(StripNUL(p))
          THEN /\ outs[1].err = "nil" /\ outs[1].msg.Type = ty
               /\ outs[1].msg.DropCount =
                    (IF ty = DropCountMsg THEN Decimal(StripNUL(p)) ELSE 0)
               /\ outs[1].msg.PacketCount =
                    (IF ty = PacketCountMsg THEN Decimal(StripNUL(p)) ELSE 0)
          ELSE outs[1].err \notin {"nil", "EOF"}

\* A DropCount frame with the text "12" was decoded.
C17_Witness ==
  /\ fn = "readPipeMsg" /\ given = generateMsg(DropCountMsg, <<49, 50>>)
  /\ outs # <<>> /\ outs[1].err = "nil"
  /\ outs[1].msg.DropCount = 12 /\ outs[1].msg.PacketCount = 0

\* C18 (as stated): an Err frame whose payload is exactly two nested frames
\* with the NUL-terminated texts t1 and t2, nothing after the second, decodes
\* to type Err with the text t1 followed by t2.
C18_ErrOfTwoNestedFrames ==
  (fn = "readPipeMsg" /\ outs # <<>>) =>
    \A t1 \in NestedTexts, t2 \in NestedTexts :
      given = RawFrame(ErrMsg, generateMsg(ErrMsg, t1) \o generateMsg(ErrMsg, t2))
        => /\ outs[1].err = "nil"
           /\ outs[1].msg.Type = ErrMsg /\ outs[1].msg.Text = t1 \o t2

\* The Err payloads with fewer than two nested frames: none, exactly one, or
\* one and a second cut short.
FewerThanTwo ==
  UNION {{<<>>} \cup {generateMsg(ErrMsg, t1) \o c :
                        c \in Cuts(generateMsg(ErrMsg, t2))
                               \ {generateMsg(ErrMsg, t2)}} :
         t1 \in NestedTexts, t2 \in NestedTexts}

\* C19 (as stated): an Err frame whose payload holds fewer than two nested
\* frames makes readPipeMsg fail with an error that is not end-of-stream.
C19_ShortNestingIsDecodeError ==
  (fn = "readPipeMsg" /\ outs # <<>>) =>
    \A p \in FewerThanTwo :
      given \in {RawFrame(ErrMsg, p), RawFrame(ErrMsg, p \o <<NUL>>)}
        => outs[1].err \notin {"nil", "EOF"}

\* C20: waitForSuccessMsg returns nil exactly when its input starts with a
\* whole frame of type Success, and whenever the input starts with a whole
\* frame it leaves the reader right after that frame; every other type, a
\* well-formed Err included, and every read failure, end-of-stream included,
\* is an error.
C20_WaitForSuccessMsg ==
  (fn = "waitForSuccessMsg" /\ outs # <<>>) =>
    LET size == IF Len(given) >= 4
                  THEN given[2] * 65536 + given[3] * 256 + given[4] ELSE 0
        whole == Len(given) >= 4 /\ Len(given) >= 4 + size
    IN /\ outs[1].err = "nil" <=> (whole /\ given[1] = SuccessMsg)
       /\ whole => stream = SubSeq(given, 4 + size + 1, Len(given))

\* A Success frame with a second frame behind it was taken and the second
\* frame is left on the reader.
C20_Witness ==
  /\ fn = "waitForSuccessMsg"
  /\ given = generateMsg(SuccessMsg, <<>>) \o generateMsg(PacketCountMsg, <<49>>)
  /\ outs # <<>> /\ outs[1].err = "nil"
  /\ stream = generateMsg(PacketCountMsg, <<49>>)

\* C22: Kill only ends the process: the step leaves the pipe and its read
\* end, the output channel, the exitStatus slot and quit as they are, and the
\* goroutine where it is (in its loop, parked in the select or in its
\* defers), with what it has read and decoded.
C22_KillOnlyEndsProcess ==
  [][Kill => UNCHANGED <<pipeVars, msgClosed, slotVars, quitClosed, decPC, buf,
                         scanErr, pending, decoded, dropped, received,
                         recvWaiting, observedClosed, panicked>>]_vars

\* The helper was killed before it wrote all its output (the read end is
\* open, so it did not exit on a closed pipe), and the goroutine is still
\* parked in the select with quit open.
C22_Witness ==
  /\ helper = "exited" /\ ~exitOK /\ written < Len(run) /\ ~rdClosed
  /\ decPC = "select" /\ quitClosed = 0 /\ msgClosed = 0

\* The text of the numbers the configurations hold.
NumText(v) ==
  CASE v = 5 -> "5" [] v = 7 -> "7" [] v = 60 -> "60" [] v = 123 -> "123"
    [] v = 456 -> "456"

\* The global options in the order they are emitted: field, kind, flag and,
\* for the prefixed numbers, the prefix.
GlobalOptions ==
  << <<"BufferedBytes", "int", "-C", "">>,
     <<"BufferedPackets", "int", "-N", "">>,
     <<"CaptureFilter", "string", "-f", "">>,
     <<"DisablePromiscuousMode", "bool", "-p", "">>,
     <<"EnableGroupAccess", "bool", "-g", "">>,
     <<"EnableMonitorMode", "bool", "-I", "">>,
     <<"FileFormat", "format", "", "">>,
     <<"FileName", "string", "-w", "">>,
     <<"KernelBufferSize", "int", "-B", "">>,
     <<"LinkLayerType", "string", "-y", "">>,
     <<"SnapshotLength", "int", "-s", "">>,
     <<"StopOnDuration", "pint", "-a", "duration">>,
     <<"StopOnFiles", "pint", "-a", "files">>,
     <<"StopOnFilesize", "pint", "-a", "filesize">>,
     <<"StopOnPacketCount", "int", "-c", "">>,
     <<"SwitchOnDuration", "pint", "-b", "duration">>,
     <<"SwitchOnFiles", "pint", "-b", "files">>,
     <<"SwitchOnFilesize", "pint", "-b", "filesize">>,
     <<"UseThreads", "bool", "-t", "">>,
     <<"WiFiChannel", "string", "-k", "">> >>

DeviceOptions ==
  << <<"DisablePromiscuousMode", "bool", "-p", "">>,
     <<"EnableMonitorMode", "bool", "-I", "">>,
     <<"KernelBufferSize", "int", "-B", "">>,
     <<"LinkLayerType", "string", "-y", "">>,
     <<"SnapshotLength", "int", "-s", "">>,
     <<"WiFiChannel", "string", "-k", "">> >>

\* What one option puts on the command line for the value v.
Emitted(opt, v) ==
  CASE opt[2] = "int" -> IF v = 0 THEN <<>> ELSE <<opt[3], NumText(v)>>
    [] opt[2] = "pint" ->
         IF v = 0 THEN <<>> ELSE <<opt[3], opt[4] \o ":" \o NumText(v)>>
    [] opt[2] = "bool" -> IF v THEN <<opt[3]>> ELSE <<>>
    [] opt[2] = "string" -> IF v = "" THEN <<>> ELSE <<opt[3], v>>
    [] opt[2] = "format" ->
         IF v = 1 THEN <<"-P">> ELSE IF v = 2 THEN <<"-n">> ELSE <<>>

RECURSIVE EmittedAll(_, _, _)
EmittedAll(opts, rec, k) ==
  IF k > Len(opts) THEN <<>>
  ELSE Emitted(opts[k], rec[opts[k][1]]) \o EmittedAll(opts, rec, k + 1)

RECURSIVE EmittedDevices(_)
EmittedDevices(das) ==
  IF das = <<>> THEN <<>>
  ELSE (IF Head(das).Name = "" THEN <<>>
        ELSE <<"-i", Head(das).Name>> \o EmittedAll(DeviceOptions, Head(das), 1))
       \o EmittedDevices(Tail(das))

\* C23: buildArgs gives the command, then in child mode -Z and the sink
\* "none", then what the global options emit in their one fixed order, then
\* for each device with a name -i, the name and what its options emit; an
\* option emits nothing for the number zero, the empty string and false, and
\* a device without a name emits nothing.
C23_BuildArgs ==
  (fn = "buildArgs" /\ outs # <<>>) =>
    outs[1].argv =
      <<given.command>>
        \o (IF given.childMode THEN <<"-Z", "none">> ELSE <<>>)
        \o EmittedAll(GlobalOptions, given, 1)
        \o EmittedDevices(given.DeviceArgs)

\* The command line TestBuildArgs expects was built.
C23_Witness ==
  /\ fn = "buildArgs" /\ given = TestBuildArgsInput /\ outs # <<>>
  /\ outs[1].argv = <<"-S", "-C", "123", "-f", "foobar", "-I", "-n", "-a",
                      "duration:60", "-b", "files:5", "-i", "dev1", "-p",
                      "-B", "456", "-y", "llt">>

\* What a receive from exitStatus yields when it does not block.
SlotRead == IF exitStatus # <<>> THEN exitStatus[1] ELSE "nil"

\* C24: exitStatus is written (if there is an error) and closed before the
\* output channel is closed: whenever the output channel is closed, and so
\* whenever the caller has seen it closed, exitStatus is closed, no send on
\* it is to come, and a receive from it does not block and yields the error
\* the goroutine sent, or nil when it sent none (unless Wait has taken the
\* error out of the slot already).
C24_SlotFinalBeforeOutputClosed ==
  /\ msgClosed > 0 => exitStatusClosed
  /\ observedClosed =>
       /\ msgClosed > 0 /\ exitStatusClosed /\ decPC = "done"
       /\ NextSlotError = "nil"
       /\ waitCalls = 0 => SlotRead = recordedErr
       /\ exitStatus # <<>> => SlotRead = recordedErr

\* The caller has seen the output channel closed before ever calling Wait,
\* and the goroutine's error is in the slot.
C24_Witness ==
  /\ observedClosed /\ waitCalls = 0 /\ errWrites = 1
  /\ exitStatusClosed /\ SlotRead = recordedErr /\ recordedErr # "nil"

C26_NoDeliveryAfterError ==
  /\ [](errWrites >= 1 =>
          /\ decPC \in {"defer_exit", "defer_msgs", "done"}
          /\ pending = <<>>)
  /\ [][errWrites >= 1 => received' = received]_vars

\* Messages were delivered, then the goroutine sent an error and closed its
\* channels.
C26_Witness ==
  /\ errWrites = 1 /\ received # <<>> /\ received = decoded
  /\ decPC = "done" /\ msgClosed = 1 /\ exitStatusClosed

\* C27: in a Capture session the goroutine has at most one decoded message
\* not yet delivered; while it holds one it is in the select, has read
\* nothing of the next frame, and takes no byte from the pipe until the
\* message is received or given up on cancellation.
C27_OneMessageInHand ==
  /\ [](kind = "capture" =>
          /\ Len(pending) <= 1
          /\ Len(decoded) = Len(received) + Len(dropped) + Len(pending)
          /\ pending # <<>> => (decPC = "select" /\ buf = <<>>)
          /\ dropped # <<>> => decPC \in {"defer_exit", "defer_msgs", "done"})
  /\ [][(kind = "capture" /\ pending # <<>>) =>
          /\ buf' = buf /\ IsPrefix(pipe, pipe') /\ decoded' = decoded
          /\ pending' # <<>> \/ received' # received \/ dropped' # dropped]_vars

\* The goroutine holds the second message of the helper's output, the first
\* delivered, while the third is in the pipe.
C27_Witness ==
  /\ kind = "capture" /\ decPC = "select" /\ pending # <<>>
  /\ Len(received) = 1 /\ Len(decoded) = 2 /\ pipe # <<>> /\ buf = <<>>

\* C28: Close only closes the pipe's read end: the step leaves quit, the
\* output channel, the exitStatus slot and the goroutine as they are, and a
\* goroutine parked in the select leaves it only by a step in which the
\* caller receives its message or quit is closed.
C28_CloseOnlyClosesPipe ==
  /\ [][Close => UNCHANGED <<quitClosed, msgClosed, slotVars, decPC, pending,
                             buf, decoded, dropped, received, recvWaiting,
                             observedClosed, panicked, pipe>>]_vars
  /\ [][decPC = "select" =>
          \/ decPC' = "select" /\ pending' = pending
          \/ received' = Append(received, pending[1])
          \/ quitClosed' = quitClosed + 1]_vars

\* Close was called while the goroutine was parked in the select: it is
\* still parked, with quit open and no channel closed.
C28_Witness ==
  /\ callerClosed /\ rdClosed /\ decPC = "select" /\ pending # <<>>
  /\ quitClosed = 0 /\ msgClosed = 0 /\ ~exitStatusClosed

\* The helper is not blocked: it has room in the pipe for its next write, or
\* it has written everything or finds the read end closed and exits.
HelperCanStep ==
  /\ helper = "running" /\ ~panicked
  /\ \/ written = Len(run)
     \/ rdClosed
     \/ Len(pipe) + Len(run[written + 1]) <= PipeCap

\* C29 (as stated): a caller that has stopped receiving and called Wait does
\* not deadlock the session: while Wait is in child.Wait() with the helper
\* still running, the helper or the goroutine can take a step, so that the
\* helper exits and Wait returns without the caller doing anything more.
C29_WaitWithoutReceivingProceeds ==
  (waitPC = "childwait" /\ waitCalls = 1 /\ helper = "running")
    => (HelperCanStep \/ DecoderCanStep)

\* C30: readPipeMsg on an input that starts with a whole frame takes exactly
\* the 4 bytes of the header and the bytes of the announced length (none for
\* length zero, the text then empty) and leaves the reader at the next
\* header; a text frame's text is its payload less at most one trailing NUL;
\* and the calls on two frames one after the other return the first, then
\* the second, then end-of-stream.
C30_FrameByFrame ==
  (fn = "readPipeMsg" /\ outs # <<>>) =>
    LET size == IF Len(given) >= 4
                  THEN given[2] * 65536 + given[3] * 256 + given[4] ELSE 0
        whole == Len(given) >= 4 /\ Len(given) >= 4 + size
        next == SubSeq(given, 4 + size + 1, Len(given))
    IN /\ (whole /\ Len(outs) = 1) => stream = next
       /\ \A ty \in {BadFilterMsg, FileMsg, QuitMsg, SuccessMsg}, p \in Payloads :
            (whole /\ SubSeq(given, 1, 4 + size) = RawFrame(ty, p)) =>
              /\ outs[1].err = "nil" /\ outs[1].msg.Type = ty
              /\ outs[1].msg.Text = StripNUL(p)
              /\ \A g \in Followers :
                   (next = g /\ Len(outs) >= 2) =>
                     /\ outs[2].err = "nil" /\ outs[2].msg.Type = g[1]
                     /\ Len(outs) = 2 => stream = <<>>
                     /\ Len(outs) >= 3 => outs[3].err = "EOF"

\* The three frames of the test suite's capture run were decoded one by one
\* in order and the input is used up.
C30_Witness ==
  /\ fn = "readPipeMsg" /\ given = Flatten(MockCaptureRun) /\ Len(outs) = 3
  /\ outs[1].msg.Type = FileMsg /\ outs[2].msg.Type = PacketCountMsg
  /\ outs[3].msg.Type = DropCountMsg /\ outs[3].err = "nil"
  /\ stream = <<>>

\* The helper's stderr starts with a whole frame of type Success.
StartsWithSuccess(e) ==
  /\ Len(e) >= 4 /\ e[1] = SuccessMsg
  /\ Len(e) >= 4 + e[2] * 65536 + e[3] * 256 + e[4]

\* The helper's stdout is not one line "0" or "1" followed by lines of a
\* numeral and at least two more tab-separated fields.
MalformedCapabilities(o) ==
  LET lines == ScanLines(o) IN
  \/ lines = <<>>
  \/ lines[1] \notin {<<48>>, <<49>>}
  \/ \E k \in 2..Len(lines) :
       FieldCount(lines[k]) < 3 \/ ~Numeral(Field(lines[k], 1))

\* C21 (as stated): Capabilities reads nothing from the helper's stdout
\* before a Success frame is decoded from its stderr, and when a pipe or the
\* start fails, the first stderr frame is not a whole Success frame, or the
\* capability lines are malformed, it returns an error and leaves the
\* Device's CanRFMon and LLTs as they were.
C21_CapabilitiesChecksBeforeAssigning ==
  (fn = "Capabilities" /\ outs # <<>>) =>
    /\ (\A k \in DOMAIN outs : outs[k].step # "success")
         => stream.stdout = given.stdout
    /\ outs[Len(outs)].step = "return" =>
         ((\/ given.stdoutErr # "nil" \/ given.stderrErr # "nil"
           \/ given.startErr # "nil"
           \/ ~StartsWithSuccess(given.stderr)
           \/ MalformedCapabilities(given.stdout))
            => /\ outs[Len(outs)].err # "nil"
               /\ outs[Len(outs)].dev = given.dev)

====
